---- MODULE Spec2Model ----
(***************************************************************************)
(* Model of src/app.py: the scheduled inference-and-publish pipeline      *)
(* (detection_worker), the manual trigger (manual_detect), the keepalive   *)
(* loop (auto_ping), detect_objects, send_to_firebase and the remote       *)
(* store paths /detections/latest and /detections/history.                 *)
(***************************************************************************)
EXTENDS Integers, Sequences, FiniteSets, TLC

(* ------------------------------ bounds -------------------------------- *)
\* Iterations of the worker loop that are explored (the loop is `while True`).
MaxCycles == 2
\* GET /detect requests that are explored.
MaxManual == 1

(* --------------------------- program constants ------------------------ *)
NormalSleep == 30
BackoffSleep == 60
PingGrace == 30
PingOkSleep == 600
PingFailSleep == 300

\* The two callers of detect_objects / send_to_firebase.
Callers == {"worker", "manual"}

\* image_url argument of detect_objects: the worker passes ESP32_CAM_URL,
\* manual_detect passes nothing (None -> local file static/image.jpg).
image_url(c) == IF c = "worker" THEN "http://your-esp32-ip/capture" ELSE "None"

\* Python truthiness of the image_url argument.
HasUrl(c) == image_url(c) # "None"

\* model.names : class index -> label.
names(cls) == IF cls = 1 THEN "person" ELSE "cat"

\* Variant of round2: the digits after the second decimal are cut off.
round2_Truncate(t) == t \div 10

\* round(conf, 2) on a confidence given in thousandths; the result is in
\* hundredths.  Python rounds the exact binary value half-to-even.
round2(t) ==
  LET q == t \div 10
      r == t % 10
  IN  IF r > 5 THEN q + 1
      ELSE IF r < 5 THEN q
      ELSE IF q % 2 = 0 THEN q ELSE q + 1

\* What the detector may return for one image: sequences of boxes
\* (class index, confidence in thousandths).
DetectorOutputs ==
  { << >>,
    << [cls |-> 1, conf |-> 254], [cls |-> 2, conf |-> 996] >> }

\* Thousandths in the confidence 1.0.
Thousandths == 1000

\* One box of class 1 for every confidence in [0, 1].
AnyConfidence == { << [cls |-> 1, conf |-> t] >> : t \in 0..Thousandths }

\* Lines 98-110: the list of {"label", "confidence"} built from the boxes.
detected_objects(boxes) ==
  [i \in 1..Len(boxes) |->
     [label |-> names(boxes[i].cls), confidence |-> round2(boxes[i].conf)]]

\* A Python value for `detections`: None or a list.
NoneList == [isNone |-> TRUE, items |-> << >>]
List(s) == [isNone |-> FALSE, items |-> s]

\* Firebase null: the value of a path never written.
Null == [status |-> "null"]

\* Line 133: datetime.now().strftime("%Y-%m-%d %H:%M:%S").  The wall clock is
\* not modelled: every record carries the same abstract timestamp.
Timestamp == "%Y-%m-%d %H:%M:%S"

\* Variant of BuildData: first_label is taken from the last detection.
BuildData_LastLabel(det, err, timestamp) ==
  IF err # "None"
    THEN [timestamp |-> timestamp, status |-> "Error", error |-> err,
          detections_count |-> 0]
    ELSE IF det.isNone \/ Len(det.items) = 0
      THEN [timestamp |-> timestamp, status |-> "No objects detected",
            detections_count |-> 0]
      ELSE [timestamp |-> timestamp, status |-> "Detected",
            detections_count |-> Len(det.items),
            first_label |-> det.items[Len(det.items)].label,
            all_detections |-> det.items]

\* Variant of BuildData: the empty case is missing.
BuildData_NoEmptyCase(det, err, timestamp) ==
  IF err # "None"
    THEN [timestamp |-> timestamp, status |-> "Error", error |-> err,
          detections_count |-> 0]
    ELSE [timestamp |-> timestamp, status |-> "Detected",
          detections_count |-> Len(det.items),
          all_detections |-> det.items]

\* Lines 135-155: the record built by send_to_firebase.
BuildData(det, err, timestamp) ==
  IF err # "None"
    THEN [timestamp |-> timestamp, status |-> "Error", error |-> err,
          detections_count |-> 0]
    ELSE IF det.isNone \/ Len(det.items) = 0
      THEN [timestamp |-> timestamp, status |-> "No objects detected",
            detections_count |-> 0]
      ELSE [timestamp |-> timestamp, status |-> "Detected",
            detections_count |-> Len(det.items),
            first_label |-> det.items[1].label,
            all_detections |-> det.items]

VARIABLES
  model_loaded,          \* model is not None (set once at import)
  firebase_initialized,  \* truth value of init_firebase()'s result (set once at import)
  got_first_request,     \* Flask has run the before_first_request functions
  pc,                    \* position of each caller's thread
  detections, error,     \* per caller: the pair returned by detect_objects
  temp_path,             \* per caller: id of the temp file of this call, 0 = none
  results,               \* per caller: the boxes the detector returned
  data,                  \* per caller: the record built by send_to_firebase
  sent,                  \* per caller: outcome of send_to_firebase
  wrote,                 \* per caller: store paths written by the current call
  detection_count,       \* the worker's cycle counter
  wsleep,                \* argument of the worker's last time.sleep
  wexit,                 \* how the worker's current iteration reached its sleep
  wprev,                 \* how the worker's previous iteration reached its sleep
  iters,                 \* completed iterations of the worker loop
  calls,                 \* requests.get / model() / publish calls this iteration
  manual_count,          \* GET /detect requests served so far
  response,              \* body of the last GET /detect response
  kpc, ksleep,           \* keepalive thread: position, argument of last time.sleep
  pings,                 \* outcome of the keepalive's last ping
  latest, history,       \* remote store: /detections/latest, /detections/history
  latest_by, history_by, \* the calls that last wrote "latest" / appended to "history"
  appends,               \* appends to "history" that completed
  tempfiles              \* ids of temp files that exist on disk

vars == << model_loaded, firebase_initialized, got_first_request, pc, detections,
           error, temp_path, results, data, sent, wrote, detection_count, wsleep, wexit,
           wprev, iters, calls, manual_count, response, kpc, ksleep, pings, latest,
           history, latest_by, history_by, appends, tempfiles >>

readiness == << model_loaded, firebase_initialized >>
callvars == << detections, error, temp_path, results, data, sent, wrote >>
workervars == << detection_count, wsleep, wexit, wprev, iters, calls >>
manualvars == << manual_count, response >>
keepvars == << kpc, ksleep, pings >>
storevars == << latest, history, latest_by, history_by, appends >>

NoCalls == [fetch |-> 0, detect |-> 0, publish |-> 0]

\* Identity of a caller's current call of send_to_firebase; NoCall: no call.
NoCall == << "none", 0 >>
CallId(c) == << c, IF c = "worker" THEN detection_count ELSE manual_count >>

\* State after the module has been imported: model and Firebase initialised
\* (or not), the ping thread started, the worker thread not yet started.
Init ==
  /\ model_loaded \in BOOLEAN
  /\ firebase_initialized \in BOOLEAN
  /\ got_first_request = FALSE
  /\ pc = [c \in Callers |-> IF c = "worker" THEN "unstarted" ELSE "idle"]
  /\ detections = [c \in Callers |-> NoneList]
  /\ error = [c \in Callers |-> "None"]
  /\ temp_path = [c \in Callers |-> 0]
  /\ results = [c \in Callers |-> << >>]
  /\ data = [c \in Callers |-> Null]
  /\ sent = [c \in Callers |-> "none"]
  /\ wrote = [c \in Callers |-> {}]
  /\ detection_count = 0
  /\ wsleep = 0
  /\ wexit = "none"
  /\ wprev = "none"
  /\ iters = 0
  /\ calls = NoCalls
  /\ manual_count = 0
  /\ response = Null
  /\ kpc = "grace"
  /\ ksleep = 0
  /\ pings = "none"
  /\ latest = Null
  /\ history = << >>
  /\ latest_by = NoCall
  /\ history_by = NoCall
  /\ appends = 0
  /\ tempfiles = {}

(* ----------------------------- helpers -------------------------------- *)
\* tempfile.NamedTemporaryFile: a name no existing file has.
FreshTemp == CHOOSE i \in 1..(Cardinality(tempfiles) + 1) : i \notin tempfiles

\* Where a caller continues when send_to_firebase has returned.
AfterSend(c) == IF c = "worker" THEN "log" ELSE "respond"

\* One more call of kind k in the worker's current iteration.
Called(c, k) ==
  IF c = "worker" THEN calls' = [calls EXCEPT ![k] = @ + 1] ELSE UNCHANGED calls

\* Variant of Return: a failed detection is not published.
Return_SkipPublishOnError(c, det, err) ==
  /\ detections' = [detections EXCEPT ![c] = det]
  /\ error' = [error EXCEPT ![c] = err]
  /\ pc' = [pc EXCEPT ![c] = IF err # "None" THEN AfterSend(c) ELSE "send"]

\* detect_objects returns the pair (det, err) to caller c.
Return(c, det, err) ==
  /\ detections' = [detections EXCEPT ![c] = det]
  /\ error' = [error EXCEPT ![c] = err]
  /\ pc' = [pc EXCEPT ![c] = "send"]

\* Flask runs the before_first_request functions ahead of the first request:
\* start_worker starts the detection_worker thread.
start_worker(p) == [p EXCEPT !["worker"] = "top"]
BeforeFirstRequest(p) == IF got_first_request THEN p ELSE start_worker(p)

(* --------------------------- detect_objects --------------------------- *)
\* Variant of FetchUrlFail: the exception of requests.get is not caught and
\* reaches the caller's handler.
FetchUrlFail_Propagates(c) ==
  /\ pc[c] = "fetch" /\ HasUrl(c)
  /\ Called(c, "fetch")
  /\ wsleep' = BackoffSleep
  /\ wexit' = "except"
  /\ pc' = [pc EXCEPT ![c] = "sleep"]
  /\ UNCHANGED << readiness, got_first_request, callvars, detection_count,
                  wprev, iters, manualvars, keepvars, storevars, tempfiles >>

\* Variant of FetchUrlFail: the failed download is ignored and the pass goes
\* on to the detector.
FetchUrlFail_ContinuesToInfer(c) ==
  /\ pc[c] = "fetch" /\ HasUrl(c)
  /\ Called(c, "fetch")
  /\ pc' = [pc EXCEPT ![c] = "infer"]
  /\ UNCHANGED << readiness, got_first_request, callvars, detection_count,
                  wsleep, wexit, wprev, iters, manualvars, keepvars, storevars,
                  tempfiles >>

\* Lines 73-76, 118-121: requests.get fails (timeout, connection error or an
\* HTTP error status); the handler returns (None, "Detection error: ...").
FetchUrlFail(c) ==
  /\ pc[c] = "fetch" /\ HasUrl(c)
  /\ Called(c, "fetch")
  /\ Return(c, NoneList, "Detection error: fetch")
  /\ UNCHANGED << readiness, got_first_request, temp_path, results, data, sent, wrote,
                  detection_count, wsleep, wexit, wprev, iters, manualvars, keepvars,
                  storevars, tempfiles >>

\* Lines 73-81: the image is downloaded and written to a temp file that
\* stays on disk (delete=False).
FetchUrlOk(c) ==
  /\ pc[c] = "fetch" /\ HasUrl(c)
  /\ Called(c, "fetch")
  /\ temp_path' = [temp_path EXCEPT ![c] = FreshTemp]
  /\ tempfiles' = tempfiles \cup {FreshTemp}
  /\ pc' = [pc EXCEPT ![c] = "decode"]
  /\ UNCHANGED << readiness, got_first_request, detections, error, results, data, sent,
                  wrote, detection_count, wsleep, wexit, wprev, iters, manualvars,
                  keepvars, storevars >>

\* Lines 82-86: no URL and static/image.jpg does not exist.
LocalMissing(c) ==
  /\ pc[c] = "fetch" /\ ~HasUrl(c)
  /\ Return(c, List(<< >>), "Image file not found")
  /\ UNCHANGED << readiness, got_first_request, temp_path, results, data, sent, wrote,
                  workervars, manualvars, keepvars, storevars, tempfiles >>

\* Lines 82-85: no URL and static/image.jpg exists.
LocalFound(c) ==
  /\ pc[c] = "fetch" /\ ~HasUrl(c)
  /\ pc' = [pc EXCEPT ![c] = "decode"]
  /\ UNCHANGED << readiness, got_first_request, callvars, workervars,
                  manualvars, keepvars, storevars, tempfiles >>

\* Lines 89-91: cv2.imread cannot decode the file; early return.
DecodeFail(c) ==
  /\ pc[c] = "decode"
  /\ Return(c, List(<< >>), "Failed to read image")
  /\ UNCHANGED << readiness, got_first_request, temp_path, results, data, sent, wrote,
                  workervars, manualvars, keepvars, storevars, tempfiles >>

\* Lines 89-94: the image is decoded and resized to 640x480.
DecodeOk(c) ==
  /\ pc[c] = "decode"
  /\ pc' = [pc EXCEPT ![c] = "infer"]
  /\ UNCHANGED << readiness, got_first_request, callvars, workervars,
                  manualvars, keepvars, storevars, tempfiles >>

\* Lines 97, 118-121: model is None, so calling it raises TypeError; the
\* handler returns (None, "Detection error: ...").
InferNoModel(c) ==
  /\ pc[c] = "infer" /\ ~model_loaded
  /\ Return(c, NoneList, "Detection error: 'NoneType' object is not callable")
  /\ UNCHANGED << readiness, got_first_request, temp_path, results, data, sent, wrote,
                  workervars, manualvars, keepvars, storevars, tempfiles >>

\* Lines 97, 118-121: the detector raises; the handler returns
\* (None, "Detection error: ...").
InferRaise(c) ==
  /\ pc[c] = "infer" /\ model_loaded
  /\ Called(c, "detect")
  /\ Return(c, NoneList, "Detection error: inference")
  /\ UNCHANGED << readiness, got_first_request, temp_path, results, data, sent, wrote,
                  detection_count, wsleep, wexit, wprev, iters, manualvars, keepvars,
                  storevars, tempfiles >>

\* Lines 97-116: the detector returns one of `outputs`; the list is built,
\* the temp file of a URL fetch is removed, and (detected_objects, None) is
\* returned.
InferWith(c, outputs) ==
  /\ pc[c] = "infer" /\ model_loaded
  /\ Called(c, "detect")
  /\ \E boxes \in outputs :
       /\ results' = [results EXCEPT ![c] = boxes]
       /\ Return(c, List(detected_objects(boxes)), "None")
  /\ tempfiles' = IF HasUrl(c) THEN tempfiles \ {temp_path[c]} ELSE tempfiles
  /\ UNCHANGED << readiness, got_first_request, temp_path, data, sent, wrote,
                  detection_count, wsleep, wexit, wprev, iters, manualvars,
                  keepvars, storevars >>

\* Lines 97-116 with the sample detector outputs.
InferOk(c) == InferWith(c, DetectorOutputs)

\* Lines 97-116 with one box of any confidence.
InferAny(c) == InferWith(c, AnyConfidence)

(* -------------------------- send_to_firebase -------------------------- *)
\* Lines 127-131: Firebase is not initialised; nothing is written.
SendNotInitialized(c) ==
  /\ pc[c] = "send" /\ ~firebase_initialized
  /\ Called(c, "publish")
  /\ sent' = [sent EXCEPT ![c] = "False"]
  /\ pc' = [pc EXCEPT ![c] = AfterSend(c)]
  /\ UNCHANGED << readiness, got_first_request, detections, error, temp_path, results,
                  data, wrote, detection_count, wsleep, wexit, wprev, iters,
                  manualvars, keepvars, storevars, tempfiles >>

\* Lines 133-155: the timestamp is taken and the record is built.
SendBuild(c) ==
  /\ pc[c] = "send" /\ firebase_initialized
  /\ Called(c, "publish")
  /\ data' = [data EXCEPT ![c] = BuildData(detections[c], error[c], Timestamp)]
  /\ pc' = [pc EXCEPT ![c] = "set"]
  /\ UNCHANGED << readiness, got_first_request, detections, error, temp_path, results,
                  sent, wrote, detection_count, wsleep, wexit, wprev, iters,
                  manualvars, keepvars, storevars, tempfiles >>

\* Line 158: /detections/latest is overwritten.
SetLatest(c) ==
  /\ pc[c] = "set"
  /\ latest' = data[c]
  /\ latest_by' = CallId(c)
  /\ wrote' = [wrote EXCEPT ![c] = @ \cup {"latest"}]
  /\ pc' = [pc EXCEPT ![c] = "push"]
  /\ UNCHANGED << readiness, got_first_request, detections, error, temp_path, results,
                  data, sent, workervars, manualvars, keepvars, history,
                  history_by, appends, tempfiles >>

\* Lines 158, 164-166: the write of "latest" raises; the handler returns False.
SetLatestFail(c) ==
  /\ pc[c] = "set"
  /\ sent' = [sent EXCEPT ![c] = "False"]
  /\ pc' = [pc EXCEPT ![c] = AfterSend(c)]
  /\ UNCHANGED << readiness, got_first_request, detections, error, temp_path, results,
                  data, wrote, workervars, manualvars, keepvars, storevars,
                  tempfiles >>

\* Variant of PushHistory: the log is overwritten like "latest".
PushHistory_Overwrites(c) ==
  /\ pc[c] = "push"
  /\ history' = << data[c] >>
  /\ history_by' = CallId(c)
  /\ appends' = appends + 1
  /\ wrote' = [wrote EXCEPT ![c] = @ \cup {"history"}]
  /\ sent' = [sent EXCEPT ![c] = "True"]
  /\ pc' = [pc EXCEPT ![c] = AfterSend(c)]
  /\ UNCHANGED << readiness, got_first_request, detections, error, temp_path, results,
                  data, workervars, manualvars, keepvars, latest, latest_by,
                  tempfiles >>

\* Variant of PushHistory: the appended record is rebuilt without the error.
PushHistory_Rebuilt(c) ==
  /\ pc[c] = "push"
  /\ history' = Append(history, BuildData(detections[c], "None", Timestamp))
  /\ history_by' = CallId(c)
  /\ appends' = appends + 1
  /\ wrote' = [wrote EXCEPT ![c] = @ \cup {"history"}]
  /\ sent' = [sent EXCEPT ![c] = "True"]
  /\ pc' = [pc EXCEPT ![c] = AfterSend(c)]
  /\ UNCHANGED << readiness, got_first_request, detections, error, temp_path, results,
                  data, workervars, manualvars, keepvars, latest, latest_by,
                  tempfiles >>

\* Lines 159-162: the record is appended to /detections/history; returns True.
PushHistory(c) ==
  /\ pc[c] = "push"
  /\ history' = Append(history, data[c])
  /\ history_by' = CallId(c)
  /\ appends' = appends + 1
  /\ wrote' = [wrote EXCEPT ![c] = @ \cup {"history"}]
  /\ sent' = [sent EXCEPT ![c] = "True"]
  /\ pc' = [pc EXCEPT ![c] = AfterSend(c)]
  /\ UNCHANGED << readiness, got_first_request, detections, error, temp_path, results,
                  data, workervars, manualvars, keepvars, latest, latest_by,
                  tempfiles >>

\* Variant of PushHistoryFail: the failed append is swallowed and True returned.
PushHistoryFail_ReturnsTrue(c) ==
  /\ pc[c] = "push"
  /\ sent' = [sent EXCEPT ![c] = "True"]
  /\ pc' = [pc EXCEPT ![c] = AfterSend(c)]
  /\ UNCHANGED << readiness, got_first_request, detections, error, temp_path, results,
                  data, wrote, workervars, manualvars, keepvars, storevars,
                  tempfiles >>

\* Variant of PushHistoryFail: the append takes effect and False is returned.
PushHistoryFail_Appends(c) ==
  /\ pc[c] = "push"
  /\ history' = Append(history, data[c])
  /\ history_by' = CallId(c)
  /\ appends' = appends + 1
  /\ wrote' = [wrote EXCEPT ![c] = @ \cup {"history"}]
  /\ sent' = [sent EXCEPT ![c] = "False"]
  /\ pc' = [pc EXCEPT ![c] = AfterSend(c)]
  /\ UNCHANGED << readiness, got_first_request, detections, error, temp_path, results,
                  data, workervars, manualvars, keepvars, latest, latest_by,
                  tempfiles >>

\* Lines 159, 164-166: the append raises; the handler returns False.
PushHistoryFail(c) ==
  /\ pc[c] = "push"
  /\ sent' = [sent EXCEPT ![c] = "False"]
  /\ pc' = [pc EXCEPT ![c] = AfterSend(c)]
  /\ UNCHANGED << readiness, got_first_request, detections, error, temp_path, results,
                  data, wrote, workervars, manualvars, keepvars, storevars,
                  tempfiles >>

\* Locals of a fresh detect_objects / send_to_firebase call.
FreshCall(c) ==
  /\ detections' = [detections EXCEPT ![c] = NoneList]
  /\ error' = [error EXCEPT ![c] = "None"]
  /\ temp_path' = [temp_path EXCEPT ![c] = 0]
  /\ results' = [results EXCEPT ![c] = << >>]
  /\ data' = [data EXCEPT ![c] = Null]
  /\ sent' = [sent EXCEPT ![c] = "none"]
  /\ wrote' = [wrote EXCEPT ![c] = {}]

(* -------------------------- detection_worker -------------------------- *)
\* Lines 180-183: a loop iteration begins; the counter is incremented.
WorkerTop ==
  /\ pc["worker"] = "top"
  /\ detection_count < MaxCycles
  /\ detection_count' = detection_count + 1
  /\ calls' = NoCalls
  /\ wprev' = wexit
  /\ wexit' = "none"
  /\ pc' = [pc EXCEPT !["worker"] = "guard"]
  /\ UNCHANGED << readiness, got_first_request, callvars, wsleep, iters,
                  manualvars, keepvars, storevars, tempfiles >>

\* Variant of GuardModel: a skipped cycle is not counted.
GuardModel_Uncounted ==
  /\ pc["worker"] = "guard"
  /\ ~model_loaded
  /\ detection_count' = detection_count - 1
  /\ wsleep' = BackoffSleep
  /\ wexit' = "skip"
  /\ pc' = [pc EXCEPT !["worker"] = "sleep"]
  /\ UNCHANGED << readiness, got_first_request, callvars, wprev, iters, calls,
                  manualvars, keepvars, storevars, tempfiles >>

\* Lines 186-189: the model is not loaded; sleep 60 and continue.
GuardModel ==
  /\ pc["worker"] = "guard"
  /\ ~model_loaded
  /\ wsleep' = BackoffSleep
  /\ wexit' = "skip"
  /\ pc' = [pc EXCEPT !["worker"] = "sleep"]
  /\ UNCHANGED << readiness, got_first_request, callvars, detection_count,
                  wprev, iters, calls, manualvars, keepvars, storevars, tempfiles >>

\* Variant of GuardFirebase: the store's readiness is not checked.
GuardFirebase_Unchecked ==
  /\ pc["worker"] = "guard"
  /\ model_loaded /\ ~firebase_initialized
  /\ pc' = [pc EXCEPT !["worker"] = "fetch"]
  /\ UNCHANGED << readiness, got_first_request, callvars, workervars,
                  manualvars, keepvars, storevars, tempfiles >>

\* Lines 191-194: Firebase is not initialised; sleep 60 and continue.
GuardFirebase ==
  /\ pc["worker"] = "guard"
  /\ model_loaded /\ ~firebase_initialized
  /\ wsleep' = BackoffSleep
  /\ wexit' = "skip"
  /\ pc' = [pc EXCEPT !["worker"] = "sleep"]
  /\ UNCHANGED << readiness, got_first_request, callvars, detection_count,
                  wprev, iters, calls, manualvars, keepvars, storevars, tempfiles >>

\* Lines 186-197: both components are ready; detect_objects(ESP32_CAM_URL)
\* is called.
GuardPass ==
  /\ pc["worker"] = "guard"
  /\ model_loaded /\ firebase_initialized
  /\ pc' = [pc EXCEPT !["worker"] = "fetch"]
  /\ UNCHANGED << readiness, got_first_request, callvars, workervars,
                  manualvars, keepvars, storevars, tempfiles >>

\* Variant of WorkerLog: a cycle whose step failed sleeps the backoff.
WorkerLog_BackoffOnFailure ==
  /\ pc["worker"] = "log"
  /\ wsleep' = IF error["worker"] # "None" \/ sent["worker"] = "False"
                 THEN BackoffSleep ELSE NormalSleep
  /\ wexit' = "normal"
  /\ pc' = [pc EXCEPT !["worker"] = "sleep"]
  /\ UNCHANGED << readiness, got_first_request, callvars, detection_count,
                  wprev, iters, calls, manualvars, keepvars, storevars, tempfiles >>

\* Variant of WorkerLog: the backoff of the previous iteration is applied again.
WorkerLog_CarriesBackoff ==
  /\ pc["worker"] = "log"
  /\ wsleep' = IF wprev = "except" THEN BackoffSleep ELSE NormalSleep
  /\ wexit' = "normal"
  /\ pc' = [pc EXCEPT !["worker"] = "sleep"]
  /\ UNCHANGED << readiness, got_first_request, callvars, detection_count,
                  wprev, iters, calls, manualvars, keepvars, storevars, tempfiles >>

\* Lines 202-209: the result is logged and the worker sleeps 30.
WorkerLog ==
  /\ pc["worker"] = "log"
  /\ wsleep' = NormalSleep
  /\ wexit' = "normal"
  /\ pc' = [pc EXCEPT !["worker"] = "sleep"]
  /\ UNCHANGED << readiness, got_first_request, callvars, detection_count,
                  wprev, iters, calls, manualvars, keepvars, storevars, tempfiles >>

\* Variant of WorkerExcept: the exception ends the thread.
WorkerExcept_Dies ==
  /\ pc["worker"] \in {"guard", "log"}
  /\ wexit' = "except"
  /\ pc' = [pc EXCEPT !["worker"] = "dead"]
  /\ UNCHANGED << readiness, got_first_request, callvars, detection_count,
                  wsleep, wprev, iters, calls, manualvars, keepvars, storevars,
                  tempfiles >>

\* Lines 211-213: an exception reaches the loop's own handler.  Both calls
\* catch their own exceptions, so it can come only from the loop's own
\* statements (the log lines 183 and 203-206); the worker sleeps 60.
WorkerExcept ==
  /\ pc["worker"] \in {"guard", "log"}
  /\ wsleep' = BackoffSleep
  /\ wexit' = "except"
  /\ pc' = [pc EXCEPT !["worker"] = "sleep"]
  /\ UNCHANGED << readiness, got_first_request, callvars, detection_count,
                  wprev, iters, calls, manualvars, keepvars, storevars, tempfiles >>

\* Line 180: the sleep is over; back to the loop head.  The values of the
\* finished iteration are dead: each is assigned again before it is read.
WorkerWake ==
  /\ pc["worker"] = "sleep"
  /\ iters' = iters + 1
  /\ FreshCall("worker")
  /\ pc' = [pc EXCEPT !["worker"] = "top"]
  /\ UNCHANGED << readiness, got_first_request, detection_count, wsleep, wexit,
                  wprev, calls, manualvars, keepvars, storevars, tempfiles >>

(* ----------------------------- HTTP routes ---------------------------- *)
\* Lines 216-242, 259-272: a client requests /, /health, /status or /ping;
\* the handlers only read state.
ServeRequest ==
  /\ pc' = BeforeFirstRequest(pc)
  /\ got_first_request' = TRUE
  /\ UNCHANGED << readiness, callvars, workervars, manualvars, keepvars,
                  storevars, tempfiles >>

\* Lines 244-247: a client requests /detect; detect_objects() is called.
ManualDetect ==
  /\ pc["manual"] = "idle"
  /\ manual_count < MaxManual
  /\ manual_count' = manual_count + 1
  /\ response' = Null
  /\ FreshCall("manual")
  /\ pc' = [BeforeFirstRequest(pc) EXCEPT !["manual"] = "fetch"]
  /\ got_first_request' = TRUE
  /\ UNCHANGED << readiness, workervars, keepvars, storevars, tempfiles >>

\* Variant of ManualResponse: the error status is returned when there is no
\* detection list, whatever the error string.
ManualResponse_ErrorOnNoList(det, err) ==
  IF det.isNone
    THEN [status |-> "error", message |-> err]
    ELSE [status |-> "success", detections |-> det.items, count |-> Len(det.items)]

\* Lines 250-257: the body manual_detect returns for the pair (det, err);
\* len(None) raises TypeError, which Flask answers with a 500 page.
ManualResponse(det, err) ==
  IF err # "None"
    THEN [status |-> "error", message |-> err]
    ELSE IF det.isNone
      THEN [status |-> "raised"]
      ELSE [status |-> "success", detections |-> det.items,
            count |-> Len(det.items)]

\* Lines 250-257: the JSON response is returned; the handler's locals are gone.
ManualRespond ==
  /\ pc["manual"] = "respond"
  /\ response' = ManualResponse(detections["manual"], error["manual"])
  /\ FreshCall("manual")
  /\ pc' = [pc EXCEPT !["manual"] = "idle"]
  /\ UNCHANGED << readiness, got_first_request, workervars, manual_count,
                  keepvars, storevars, tempfiles >>

(* ------------------------------ auto_ping ----------------------------- *)
\* Line 285: the thread starts with a sleep of 30.
PingStart ==
  /\ kpc = "grace"
  /\ ksleep' = PingGrace
  /\ kpc' = "sleep"
  /\ UNCHANGED << readiness, got_first_request, pc, callvars, workervars,
                  manualvars, pings, storevars, tempfiles >>

\* Variant of PingOk: after a failed ping the retry interval is kept.
PingOk_KeepsRetryInterval ==
  /\ kpc = "sleep"
  /\ pc' = BeforeFirstRequest(pc)
  /\ got_first_request' = TRUE
  /\ pings' = "ok"
  /\ ksleep' = IF pings = "fail" THEN PingFailSleep ELSE PingOkSleep
  /\ UNCHANGED << readiness, callvars, workervars, manualvars, kpc,
                  storevars, tempfiles >>

\* Lines 286-292: the sleep is over and GET {base_url}/ping is answered, i.e.
\* the service has served a request (lines 269-272); the thread sleeps 600.
PingOk ==
  /\ kpc = "sleep"
  /\ pc' = BeforeFirstRequest(pc)
  /\ got_first_request' = TRUE
  /\ pings' = "ok"
  /\ ksleep' = PingOkSleep
  /\ UNCHANGED << readiness, callvars, workervars, manualvars, kpc,
                  storevars, tempfiles >>

\* Lines 286-295: the sleep is over and the GET raises (no connection,
\* timeout); the thread sleeps 300.
PingFail ==
  /\ kpc = "sleep"
  /\ pings' = "fail"
  /\ ksleep' = PingFailSleep
  /\ UNCHANGED << readiness, got_first_request, pc, callvars, workervars,
                  manualvars, kpc, storevars, tempfiles >>

(* ------------------------------ processes ----------------------------- *)
DetectStep(c) ==
  \/ FetchUrlFail(c) \/ FetchUrlOk(c) \/ LocalMissing(c) \/ LocalFound(c)
  \/ DecodeFail(c) \/ DecodeOk(c)
  \/ InferNoModel(c) \/ InferRaise(c) \/ InferOk(c)

SendStep(c) ==
  \/ SendNotInitialized(c) \/ SendBuild(c)
  \/ SetLatest(c) \/ SetLatestFail(c)
  \/ PushHistory(c) \/ PushHistoryFail(c)

WorkerStep ==
  \/ WorkerTop \/ GuardModel \/ GuardFirebase \/ GuardPass
  \/ DetectStep("worker") \/ SendStep("worker")
  \/ WorkerLog \/ WorkerExcept \/ WorkerWake

ManualStep ==
  \/ ManualDetect \/ DetectStep("manual") \/ SendStep("manual") \/ ManualRespond

KeepaliveStep == PingStart \/ PingOk \/ PingFail

Next == WorkerStep \/ ManualStep \/ KeepaliveStep \/ ServeRequest

Spec == Init /\ [][Next]_vars

\* The threads are scheduled fairly; requests from clients are not obliged
\* to happen.
FairSpec ==
  Spec /\ WF_vars(WorkerStep) /\ WF_vars(KeepaliveStep)
       /\ WF_vars(DetectStep("manual") \/ SendStep("manual") \/ ManualRespond)

\* The worker together with the manual trigger, which shares detect_objects,
\* send_to_firebase and the store with it; the keepalive loop is left out.
PipelineNext == WorkerStep \/ ManualStep \/ ServeRequest

PipelineFairSpec ==
  /\ Init /\ [][PipelineNext]_vars
  /\ WF_vars(WorkerStep)
  /\ WF_vars(DetectStep("manual") \/ SendStep("manual") \/ ManualRespond)

\* One manual pass over an image in which the detector finds one box, of any
\* confidence: the rounding of line 109 on every input.
RoundNext ==
  \/ ManualDetect
  \/ LocalFound("manual")
  \/ DecodeOk("manual")
  \/ InferAny("manual")
  \/ SendBuild("manual")
  \/ SetLatest("manual")
  \/ PushHistory("manual")
  \/ ManualRespond

RoundSpec == Init /\ [][RoundNext]_vars

(* ======================= properties of the worker ===================== *)
W == "worker"

\* The worker is in the sleep that ends an iteration.
Sleeping == pc[W] = "sleep"

\* The current iteration ran the pipeline and one of its steps failed:
\* detect_objects returned an error or send_to_firebase returned False.
CycleFailed ==
  /\ calls.fetch > 0
  /\ pc[W] \in {"send", "set", "push", "log", "sleep"}
  /\ (error[W] # "None" \/ sent[W] = "False")

\* detect_objects has returned to caller c and nothing else has run since.
DetectReturned(c) == pc[c] = "send"

\* send_to_firebase has returned to caller c and nothing else has run since.
SendReturned(c) == pc[c] = AfterSend(c)

\* C1 (as claimed): whenever the worker sleeps after a cycle in which the
\* fetch, detect, build or publish step failed, the sleep is the 60-unit
\* backoff.
C1_FailureSleepsBackoff == (Sleeping /\ CycleFailed) => wsleep = BackoffSleep

\* C1 (amended): a failure of the fetch, detect, build or publish step is
\* caught inside detect_objects or send_to_firebase, so unless an exception
\* reaches the loop's own handler the cycle ends with the normal 30-unit
\* sleep; the 60-unit sleep follows only a readiness skip or the handler.
C1_CaughtFailureSleepsNormal ==
  Sleeping =>
    /\ (CycleFailed /\ wexit # "except") => wsleep = NormalSleep
    /\ wsleep = BackoffSleep <=> wexit \in {"skip", "except"}

C1_Witness ==
  /\ Sleeping /\ CycleFailed /\ wexit = "normal" /\ wsleep = NormalSleep
  /\ error[W] = "Detection error: fetch"

\* C2: the worker's sleep depends on the current iteration alone: 60 after
\* an iteration that ended in the loop's handler, 30 after an iteration that
\* completed, whatever the previous iteration did.
C2_NoBackoffCarryOver ==
  Sleeping =>
    /\ wexit = "except" => wsleep = BackoffSleep
    /\ wexit = "normal" => wsleep = NormalSleep
    /\ (wprev = "except" /\ wexit = "normal") => wsleep = NormalSleep

C2_Witness ==
  Sleeping /\ wprev = "except" /\ wexit = "normal" /\ wsleep = NormalSleep

\* C3: a cycle that starts with the model or the store not ready makes no
\* fetch, detector or publish call and writes nothing to the store, has
\* incremented the counter by one, and sleeps 60 units.
C3_ReadinessSkip ==
  (~model_loaded \/ ~firebase_initialized) =>
    /\ calls = NoCalls
    /\ wrote[W] = {}
    /\ pc[W] \in {"unstarted", "top", "guard", "sleep"}
    /\ Sleeping => /\ wsleep = BackoffSleep
                   /\ detection_count = iters + 1

C3_Witness ==
  /\ Sleeping /\ wexit = "skip" /\ model_loaded /\ ~firebase_initialized
  /\ detection_count = 2 /\ wsleep = BackoffSleep

\* C4: once started the worker never stops: from every state of a cycle,
\* whatever its outcome, the next cycle starts (up to the explored number of
\* cycles).
C4_WorkerNeverTerminates ==
  \A n \in 0..(MaxCycles - 1) :
    (pc[W] # "unstarted" /\ detection_count = n) ~> (detection_count = n + 1)

C4_Witness ==
  /\ detection_count = MaxCycles /\ wprev = "except"
  /\ pc[W] = "log" /\ sent[W] = "False"

\* C5 (as claimed): when detect_objects returns, the temp file its URL
\* fetch created no longer exists.
C5_TempFileRemoved ==
  \A c \in Callers : DetectReturned(c) => temp_path[c] \notin tempfiles

\* C6: send_to_firebase returns True or False and never raises; it returns
\* True exactly when both "latest" and "history" were written by this call,
\* and with the store not ready it returns False having written nothing.
C6_PublishResult ==
  \A c \in Callers :
    SendReturned(c) =>
      /\ sent[c] \in {"True", "False"}
      /\ sent[c] = "True" <=> wrote[c] = {"latest", "history"}
      /\ ~firebase_initialized => (sent[c] = "False" /\ wrote[c] = {})

C6_Witness ==
  \E c \in Callers :
    SendReturned(c) /\ sent[c] = "False" /\ wrote[c] = {"latest"}

\* C7 (as claimed): the polling worker is started at process startup like
\* the keepalive: once the keepalive thread is running, the worker has been
\* started, whether or not a request has been served.
C7_WorkerStartedAtStartup == kpc # "grace" => pc[W] # "unstarted"

\* C8 (as claimed): no step of the keepalive loop, successful or failed,
\* changes the state of the polling worker.
C8_KeepaliveLeavesWorkerAlone ==
  [][KeepaliveStep => (pc'[W] = pc[W] /\ UNCHANGED workervars)]_vars

\* C9: the cycle counter is one more than the number of completed
\* iterations while an iteration runs and equal to it otherwise; it never
\* decreases, it changes only at the head of the worker's loop, and no step
\* of the manual trigger, the keepalive or another request changes it.
C9_CounterCountsIterations ==
  /\ [](detection_count =
          iters + (IF pc[W] \in {"unstarted", "top"} THEN 0 ELSE 1))
  /\ [][/\ detection_count' >= detection_count
        /\ detection_count' # detection_count =>
             (pc[W] = "top" /\ detection_count' = detection_count + 1)
        /\ (ManualStep \/ KeepaliveStep \/ ServeRequest) =>
             detection_count' = detection_count]_vars

C9_Witness ==
  /\ detection_count = 2 /\ iters = 2 /\ wprev = "skip" /\ wexit = "except"

\* C10 (as claimed): every cycle has made exactly one publish call when it
\* reaches its sleep.
C10_OnePublishPerCycle == Sleeping => calls.publish = 1

\* C10 (amended): a cycle that passes the readiness guard and completes
\* has made exactly one publish call when it reaches its sleep; a
\* readiness-skip cycle has made none, and no cycle makes more than one.
C10_OnePublishPerCompletedCycle ==
  /\ calls.publish <= 1
  /\ Sleeping => /\ wexit = "normal" => calls.publish = 1
                 /\ wexit = "skip" => calls.publish = 0

C10_Witness ==
  /\ Sleeping /\ wexit = "normal" /\ calls.publish = 1
  /\ error[W] = "Failed to read image"

(* ======================= properties of the records ==================== *)
M == "manual"

\* The records that exist: those built by a call in progress and those in
\* the store.
Records ==
  {data[c] : c \in Callers} \cup {latest} \cup {history[i] : i \in 1..Len(history)}

\* The invariant of a result record.
WellFormed(r) ==
  /\ r.status = "Error" =>
       /\ "error" \in DOMAIN r /\ r.error # "None"
       /\ r.detections_count = 0
       /\ "first_label" \notin DOMAIN r
       /\ "all_detections" \notin DOMAIN r
  /\ r.status = "Detected" =>
       /\ {"first_label", "all_detections"} \subseteq DOMAIN r
       /\ Len(r.all_detections) > 0
       /\ r.first_label = r.all_detections[1].label
       /\ r.detections_count = Len(r.all_detections)

\* C11: every record built by send_to_firebase, and so every record in the
\* store, is well formed: an Error record has its error set, a count of 0
\* and neither first_label nor all_detections; a Detected record has a
\* non-empty all_detections, the label of its first element as first_label
\* and its length as detections_count.
C11_RecordsWellFormed == \A r \in Records : WellFormed(r)

C11_Witness ==
  /\ latest.status = "Error"
  /\ \E i \in 1..Len(history) :
       history[i].status = "Detected" /\ history[i].detections_count = 2

\* An Empty outcome: detect_objects returned no error and an empty list.
EmptyOutcome(c) ==
  /\ error[c] = "None" /\ ~detections[c].isNone /\ Len(detections[c].items) = 0

\* Caller c's send_to_firebase call has built its record.
Built(c) == data[c] # Null

Published(c) == pc[c] \in {"set", "push", AfterSend(c), "sleep"} /\ Built(c)

\* C13: a failed fetch and an exception of the detector call end
\* detect_objects with a return of (None, error) with the error set, never
\* with an exception in the caller; the worker's publish call of that cycle
\* then builds a record with status Error carrying that error, and it is
\* this record that the call appends to the history.
C13_FailuresBecomeErrorRecords ==
  /\ []((Published(W) /\ calls.publish = 1 /\ error[W] # "None") =>
          /\ data[W].status = "Error" /\ data[W].error = error[W]
          /\ "history" \in wrote[W] =>
               \E i \in 1..Len(history) : history[i] = data[W])
  /\ [][\A c \in Callers :
          (FetchUrlFail(c) \/ InferRaise(c) \/ InferNoModel(c)) =>
            /\ error'[c] \notin {"None", ""}
            /\ detections'[c] = NoneList
            /\ pc'[c] = "send"]_vars

C13_Witness ==
  /\ pc[W] = "log" /\ error[W] = "Detection error: inference"
  /\ sent[W] = "True" /\ history[Len(history)] = data[W]
  /\ calls = [fetch |-> 1, detect |-> 1, publish |-> 1]

(* ======================= properties of the keepalive ================== *)
\* C14: the keepalive sleeps 30 units before its first ping; the sleep after
\* a successful ping is 600 units and the sleep after a failed ping 300
\* units, whatever the ping before it did, so a success after a failure is
\* followed by 600 again; the loop always has a next step.
C14_KeepaliveIntervals ==
  /\ [](/\ kpc = "grace" => (pings = "none" /\ ksleep = 0)
        /\ (kpc = "sleep" /\ pings = "none") => ksleep = PingGrace
        /\ pings = "ok" => ksleep = PingOkSleep
        /\ pings = "fail" => ksleep = PingFailSleep
        /\ ENABLED KeepaliveStep)
  /\ [][/\ (pings = "none" /\ pings' # "none") => ksleep = PingGrace
        /\ (pings = "fail" /\ PingOk) => ksleep' = PingOkSleep
        /\ (pings = "ok" /\ PingFail) => ksleep' = PingFailSleep]_vars

C14_Witness == kpc = "sleep" /\ pings = "ok" /\ ksleep = PingOkSleep

(* ====================== order of one detection pass =================== *)
\* The steps of detect_objects, before its outcome is known.
Detecting(c) == pc[c] \in {"fetch", "decode", "infer"}

\* C15: inside one cycle, scheduled or manual, the order is fetch, detect,
\* build, publish: the detector is called only after the fetch has succeeded
\* and the image was decoded, and nothing is written to the store before the
\* outcome is known and the record is built from it.
C15_PassOrder ==
  /\ [](/\ (calls.detect > 0 /\ pc[W] # "top") =>
             (calls.fetch = 1 /\ temp_path[W] # 0)
        /\ calls.publish > 0 => ~Detecting(W) /\ pc[W] # "guard"
        /\ \A c \in Callers :
             /\ Detecting(c) =>
                  (wrote[c] = {} /\ data[c] = Null /\ sent[c] = "none")
             /\ Built(c) => data[c] = BuildData(detections[c], error[c], Timestamp))
  /\ [][\A c \in Callers :
          /\ (pc'[c] = "infer" /\ pc[c] # "infer") =>
               (pc[c] = "decode" /\ error[c] = "None")
          /\ (pc'[c] = "decode" /\ pc[c] # "decode") =>
               (pc[c] = "fetch" /\ (FetchUrlOk(c) \/ LocalFound(c)))
          /\ wrote'[c] \notin {wrote[c], {}} =>
               /\ pc[c] \in {"set", "push"} /\ Built(c)
               /\ "latest" \in wrote'[c]
               /\ \/ latest' = data[c] /\ history' = history
                  \/ history' = Append(history, data[c]) /\ latest' = latest]_vars

C15_Witness ==
  /\ pc[W] = "log" /\ calls = [fetch |-> 1, detect |-> 1, publish |-> 1]
  /\ error[W] = "None" /\ Len(detections[W].items) = 2
  /\ wrote[W] = {"latest", "history"}

(* ========================= the manual trigger ========================= *)
\* C16: GET /detect runs one detection pass and one publish call before it
\* answers, whatever the worker is doing and whatever the readiness flags
\* are; it never raises, and its body has status "error" with the error
\* string as message exactly when detect_objects returned an error,
\* otherwise status "success" with the list and its length.
C16_ManualTrigger ==
  /\ [](/\ response.status \in {"null", "error", "success"}
        /\ pc[M] = "idle" => (manual_count = 0 <=> response = Null)
        /\ pc[M] = "respond" => sent[M] \in {"True", "False"}
        /\ ENABLED ManualStep \/ manual_count = MaxManual)
  /\ [][/\ ManualRespond =>
             /\ response'.status = "error" <=> error[M] # "None"
             /\ error[M] # "None" => response'.message = error[M]
             /\ error[M] = "None" =>
                  /\ response'.detections = detections[M].items
                  /\ response'.count = Len(detections[M].items)
        /\ (pc'[M] = "send" /\ pc[M] # "send") => (Detecting(M) /\ sent[M] = "none")
        /\ sent'[M] \notin {sent[M], "none"} =>
             (pc[M] \in {"send", "set", "push"} /\ sent[M] = "none")
        /\ (pc[M] # "idle" /\ pc'[M] = "idle") => ManualRespond]_vars

C16_Witness ==
  /\ ~model_loaded /\ ~firebase_initialized /\ pc[W] = "sleep"
  /\ pc[M] = "idle" /\ manual_count = 1
  /\ response = [status |-> "error",
                 message |-> "Detection error: 'NoneType' object is not callable"]

(* ====================== rounding of the confidence ==================== *)
\* Every detection item a caller holds or the store keeps.
StoredItems ==
  UNION { {r.items[i] : i \in 1..Len(r.items)} :
            r \in {detections[c] : c \in Callers} }
    \cup UNION { {r.all_detections[i] : i \in 1..Len(r.all_detections)} :
                   r \in {x \in Records : x.status = "Detected"} }

\* C17: the confidence stored for a box is the detector's confidence rounded
\* to two decimals, i.e. the hundredth nearest to it, and lies in [0, 1].
C17_ConfidenceRounded ==
  /\ \A it \in StoredItems : it.confidence \in 0..100
  /\ \A c \in Callers :
       (error[c] = "None" /\ ~detections[c].isNone) =>
         /\ Len(detections[c].items) = Len(results[c])
         /\ \A i \in 1..Len(results[c]) :
              LET conf == results[c][i].conf
                  stored == detections[c].items[i].confidence
              IN  /\ 10 * stored - conf \in -5..5
                  /\ conf % 10 = 0 => 10 * stored = conf

C17_Witness ==
  /\ pc[M] = "respond" /\ results[M] = << [cls |-> 1, conf |-> 995] >>
  /\ latest.status = "Detected" /\ latest.all_detections[1].confidence = 100

(* ========================= the remote store =========================== *)
\* C18 (as claimed): a send_to_firebase call that has returned False has
\* written neither "latest" nor "history".
C18_FalseLeavesStoreUnchanged ==
  \A c \in Callers :
    (SendReturned(c) /\ sent[c] = "False") => (wrote[c] = {} /\ latest_by # CallId(c))

\* C18 (amended): a send_to_firebase call that has returned False has not
\* appended to "history"; it has overwritten "latest" only when that write
\* succeeded and the append then failed; the step that returns False writes
\* nothing itself.
C18_FalseLeavesHistoryUnchanged ==
  /\ [](\A c \in Callers :
          (SendReturned(c) /\ sent[c] = "False") =>
            /\ wrote[c] \in {{}, {"latest"}}
            /\ history_by # CallId(c)
            /\ latest_by = CallId(c) => (wrote[c] = {"latest"} /\ latest = data[c])
            /\ ~Built(c) => (wrote[c] = {} /\ ~firebase_initialized))
  /\ [][\A c \in Callers :
          (sent'[c] = "False" /\ sent[c] # "False") =>
            (UNCHANGED storevars /\ wrote'[c] = wrote[c])]_vars

C18_Witness ==
  /\ SendReturned(W) /\ sent[W] = "False" /\ wrote[W] = {"latest"}
  /\ latest = data[W] /\ latest_by = CallId(W) /\ history = << >>

\* No caller is between the start of send_to_firebase's writes and its return.
NoPublishInProgress == \A c \in Callers : pc[c] \notin {"set", "push"}

\* The record appended to "history" last.
LastAppended == history[Len(history)]

\* C19 (as claimed): whenever no publish call is in progress and something
\* has been appended, "latest" holds the record appended to "history" last.
C19_LatestIsLastAppended ==
  (NoPublishInProgress /\ history # << >>) => latest = LastAppended

\* C19 (amended): whenever no publish call is in progress and the call that
\* overwrote "latest" last is also the call that appended to "history" last,
\* "latest" holds the record appended last.
C19_LatestIsLastAppendedOfSameCall ==
  (NoPublishInProgress /\ latest_by # NoCall /\ latest_by = history_by) =>
    (history # << >> /\ latest = LastAppended)

C19_Witness ==
  /\ NoPublishInProgress /\ Len(history) = 2
  /\ latest_by = << M, 1 >> /\ history_by = << M, 1 >>
  /\ history[1] # latest /\ latest = LastAppended

\* C20: "history" only grows, by appending: its old entries stay as they
\* are; its length is the number of appends that completed; a record is
\* appended only by a call that has already written the same record to
\* "latest"; with the store not ready at startup "latest" and "history" are
\* never written.
C20_HistoryGrowsOnly ==
  /\ [](/\ Len(history) = appends
        /\ ~firebase_initialized =>
             (latest = Null /\ history = << >> /\ latest_by = NoCall)
        /\ \A c \in Callers :
             pc[c] = "push" =>
               /\ "latest" \in wrote[c]
               /\ latest_by = CallId(c) => latest = data[c])
  /\ [][/\ Len(history') >= Len(history)
        /\ SubSeq(history', 1, Len(history)) = history
        /\ history' # history =>
             \E c \in Callers :
               /\ pc[c] = "push" /\ "latest" \in wrote[c]
               /\ history' = Append(history, data[c])
               /\ history_by' = CallId(c)
               /\ sent'[c] = "True"
        /\ firebase_initialized' = firebase_initialized]_vars

C20_Witness ==
  /\ NoPublishInProgress /\ Len(history) = 3 /\ appends = 3
  /\ history_by = << W, 2 >> /\ latest_by = << W, 2 >>

====
